---- MODULE Spec2Model ----
(***************************************************************************)
(* A model of lit-ssr's streaming renderer                                 *)
(* (src/src/lib/util/iterator-readable.ts): the template cache and part    *)
(* extractor (getTemplate), the generators render / renderValue /          *)
(* renderTemplateResult / handleNode, the flushTo / skipTo primitives and  *)
(* the IterableReader that pulls chunks from a render.                     *)
(*                                                                         *)
(* Text is a sequence of tokens (a token is an indivisible piece of HTML   *)
(* text), an offset is a number of tokens, and a chunk (one yielded        *)
(* string) is a sequence of tokens; the empty string is <<>>.              *)
(***************************************************************************)
EXTENDS Integers, Sequences, FiniteSets, TLC

(***************************************************************************)
(* lit-html's conventions (lit-html/lib/template.js).                      *)
(***************************************************************************)
marker == "{{lit}}"
boundAttributeSuffix == "$lit$"

(***************************************************************************)
(* Values a binding expression can produce.  str is String(value) as       *)
(* tokens; ref names a TemplateResult, an array or a repeat directive's    *)
(* items in the tables below.                                              *)
(***************************************************************************)
Val(t, s, b, r) == [type |-> t, str |-> s, truthy |-> b, ref |-> r]
Undefined == Val("undefined", <<"undefined">>, FALSE, "")
Null == Val("null", <<"null">>, FALSE, "")
Nothing == Val("nothing", <<"[object Object]">>, TRUE, "")
Prim(s) == Val("prim", <<s>>, TRUE, "")
False == Val("prim", <<"false">>, FALSE, "")
\* a string built from tokens; the empty string is falsy
Str(tokens) == Val("prim", tokens, Len(tokens) > 0, "")
TR(id) == Val("TemplateResult", <<"[object Object]">>, TRUE, id)
Arr(id) == Val("array", <<"[array]">>, TRUE, id)
RenderLight == Val("renderLight", <<"[function]">>, TRUE, "")
Repeat(id) == Val("repeat", <<"[function]">>, TRUE, id)
\* a classMap directive; str is what its pre-renderer returns
ClassMap(s) == Val("classMap", <<s>>, TRUE, "")
\* String(value)
String(v) == v.str

(***************************************************************************)
(* Template literals, as the tree parse5 builds from TemplateResult        *)
(* .getHTML(): nodes in document order, parent 0 being the fragment.  A    *)
(* comment's data and an attribute's value are token sequences in which    *)
(* each expression is the marker token.  slot tells, for a comment that    *)
(* embeds an expression without being exactly the marker, whether the      *)
(* static string before the expression looks like an attribute ("attr")    *)
(* to lastAttributeNameRegex or not ("text").                              *)
(***************************************************************************)
Elem(p, tag, attrs) ==
  [kind |-> "element", parent |-> p, tagName |-> tag, data |-> <<>>,
   attrs |-> attrs, void |-> FALSE, slot |-> "none"]
VoidElem(p, tag, attrs) ==
  [kind |-> "element", parent |-> p, tagName |-> tag, data |-> <<>>,
   attrs |-> attrs, void |-> TRUE, slot |-> "none"]
Txt(p, s) ==
  [kind |-> "text", parent |-> p, tagName |-> "", data |-> <<s>>,
   attrs |-> <<>>, void |-> FALSE, slot |-> "none"]
Cmt(p, data, slot) ==
  [kind |-> "comment", parent |-> p, tagName |-> "", data |-> data,
   attrs |-> <<>>, void |-> FALSE, slot |-> slot]
Fragment ==
  [kind |-> "fragment", parent |-> 0, tagName |-> "", data |-> <<>>,
   attrs |-> <<>>, void |-> FALSE, slot |-> "none"]
\* An attribute as written in the template literal: sigil, name, whether an
\* expression is bound in its value, and the value.
Attr(sigil, base, bound, value) ==
  [sigil |-> sigil, base |-> base, bound |-> bound, value |-> value]

Source ==
  "hello" :> << Elem(0, "p", <<>>), Txt(1, "Hello, "), Cmt(1, <<marker>>, "none"),
                Txt(1, "!") >>
  @@ "bool" :> << Elem(0, "b", <<>>), Cmt(1, <<marker>>, "none"),
                  VoidElem(0, "input", << Attr("?", "disabled", TRUE, <<marker>>) >>) >>
  @@ "badbool" :> << VoidElem(0, "input",
                       << Attr("?", "disabled", TRUE, <<"a", marker>>) >>) >>
  @@ "host" :> << Elem(0, "x-foo",
                    << Attr(".", "bar", TRUE, <<marker>>),
                       Attr("", "id", FALSE, <<"h">>),
                       Attr("", "class", TRUE, <<"a ", marker, " b ", marker>>) >>),
                  Cmt(1, <<marker>>, "none") >>
  @@ "fooShadow" :> << Elem(0, "i", <<>>), Txt(1, "foo") >>
  @@ "fooLight" :> << Elem(0, "u", <<>>), Txt(1, "light-foo") >>
  @@ "barShadow" :> << Txt(0, "bar") >>
  @@ "barLight" :> << Elem(0, "s", <<>>), Txt(1, "light-bar") >>
  @@ "nest" :> << Elem(0, "div", <<>>), Elem(1, "x-foo", <<>>), Elem(2, "x-bar", <<>>),
                  Cmt(2, <<marker>>, "none") >>
  @@ "cmt" :> << Cmt(0, <<"c">>, "none"),
                 Elem(0, "p", << Attr("", "class", TRUE, <<marker>>) >>),
                 Cmt(2, <<marker>>, "none") >>
  @@ "embed" :> << Cmt(0, <<" x", boundAttributeSuffix, "=", marker, " ">>, "attr"),
                   VoidElem(0, "input",
                     << Attr("?", "disabled", TRUE, <<"a", marker>>) >>) >>
  @@ "embed2" :> << Cmt(0, <<" a", marker, " ">>, "text"),
                    VoidElem(0, "input",
                      << Attr("?", "disabled", TRUE, <<marker>>) >>) >>
  @@ "embed3" :> << Cmt(0, <<" x", boundAttributeSuffix, "=", marker, " ">>, "attr"),
                    VoidElem(0, "input",
                      << Attr("?", "disabled", TRUE, <<marker>>) >>) >>
  @@ "list" :> << Elem(0, "ul", <<>>), Cmt(1, <<marker>>, "none") >>
  @@ "li" :> << Elem(0, "li", <<>>), Cmt(1, <<marker>>, "none") >>
  @@ "bad" :> << Elem(0, "x-bad",
                   << Attr(".", "prop", TRUE, <<marker>>),
                      Attr("@", "click", TRUE, <<marker>>) >>),
                 Elem(1, "x-none", <<>>), Txt(2, "in") >>
  @@ "unk" :> << Elem(0, "x-unknown",
                   << Attr(".", "prop", TRUE, <<marker>>),
                      Attr("@", "click", TRUE, <<marker>>) >>),
                 Elem(1, "x-none", <<>>), Txt(2, "in") >>

TemplateIds == DOMAIN Source

Node(nodes, i) == IF i = 0 THEN Fragment ELSE nodes[i]

isCommentNode(n) == n.kind = "comment"
isElement(n) == n.kind = "element"

(***************************************************************************)
(* Sequence helpers.                                                       *)
(***************************************************************************)
RECURSIVE Flatten(_)
Flatten(ss) == IF Len(ss) = 0 THEN <<>> ELSE Head(ss) \o Flatten(Tail(ss))

\* the members of a set of numbers in ascending and in descending order
Ascending(S) ==
  [k \in 1..Cardinality(S) |-> CHOOSE j \in S : Cardinality({x \in S : x < j}) = k - 1]
Descending(S) ==
  [k \in 1..Cardinality(S) |-> CHOOSE j \in S : Cardinality({x \in S : x > j}) = k - 1]

IsPrefix(s, t) == Len(s) <= Len(t) /\ SubSeq(t, 1, Len(s)) = s

(***************************************************************************)
(* TemplateResult.getHTML() and parseFragment(html, {sourceCodeLocationInfo *)
(* : true}): the HTML text of a template (nodes) and each node's source    *)
(* offsets.                                                                *)
(***************************************************************************)
\* node.childNodes
Children(nodes, i) == Ascending({j \in 1..Len(nodes) : nodes[j].parent = i})

\* the last node of the subtree of node i: the nodes are in document order,
\* so the subtree is the run of nodes after i whose parent is not before i
LastDescendant(nodes, i) ==
  IF i = 0 THEN Len(nodes)
  ELSE CHOOSE j \in i..Len(nodes) :
         /\ \A k \in (i + 1)..j : nodes[k].parent >= i
         /\ j = Len(nodes) \/ nodes[j + 1].parent < i

\* depthFirst(node): the node, then its descendants in document order
depthFirst(nodes, i) == [k \in 1..(LastDescendant(nodes, i) - i + 1) |-> i + k - 1]

\* attr.name as parse5 reports it: sigil, name and, if bound, the suffix
AttrNameTokens(a) ==
  (IF a.sigil = "" THEN <<>> ELSE <<a.sigil>>) \o <<a.base>>
    \o (IF a.bound THEN <<boundAttributeSuffix>> ELSE <<>>)
AttrTokens(a) == AttrNameTokens(a) \o <<"=\"">> \o a.value \o <<"\"">>

\* the first k attributes of a start tag, with the space before each
AttrsTokens(attrs, k) == Flatten([m \in 1..k |-> <<" ">> \o AttrTokens(attrs[m])])

OpenTag(n) == <<"<", n.tagName>> \o AttrsTokens(n.attrs, Len(n.attrs)) \o <<">">>
CloseTag(n) == IF n.void THEN <<>> ELSE <<"</", n.tagName, ">">>

\* the text a node starts with: an element's start tag, a comment, a text
StartTokens(n) ==
  CASE n.kind = "element" -> OpenTag(n)
    [] n.kind = "comment" -> <<"<!--">> \o n.data \o <<"-->">>
    [] n.kind = "text" -> n.data

\* the elements among `from`..k whose subtree ends with node k, innermost first
EndingAt(nodes, k, from) ==
  Descending({a \in from..k : isElement(nodes[a]) /\ LastDescendant(nodes, a) = k})

\* the end tags of these elements
EndTags(nodes, ending) == Flatten([x \in 1..Len(ending) |-> CloseTag(nodes[ending[x]])])

\* the text from the start of node k to the start of node k + 1
Piece(nodes, k) == StartTokens(nodes[k]) \o EndTags(nodes, EndingAt(nodes, k, 1))

\* result.getHTML()
getHTML(nodes) == Flatten([k \in 1..Len(nodes) |-> Piece(nodes, k)])

StartOffset(nodes, i) == Len(Flatten([k \in 1..(i - 1) |-> Piece(nodes, k)]))

\* an element's end: after the start of its last descendant and the end tags
\* up to its own; a comment's or a text's: after its text
EndOffset(nodes, i, last) ==
  IF isElement(nodes[i])
  THEN StartOffset(nodes, last) + Len(StartTokens(nodes[last]))
         + Len(EndTags(nodes, EndingAt(nodes, last, i)))
  ELSE StartOffset(nodes, i) + Len(StartTokens(nodes[i]))

\* the k-th attribute starts after "<", the tag name, the earlier attributes
\* and a space
AttrLocation(n, nameStart, k) ==
  [startOffset |-> nameStart, endOffset |-> nameStart + Len(AttrTokens(n.attrs[k]))]

Location(n, start, end) ==
  [startOffset |-> start,
   endOffset |-> end,
   startTagEnd |-> IF isElement(n) THEN start + Len(OpenTag(n)) ELSE start,
   attrs |-> [k \in 1..Len(n.attrs) |->
                AttrLocation(n, start + 3 + Len(AttrsTokens(n.attrs, k - 1)), k)]]

\* node.sourceCodeLocation
sourceCodeLocation(nodes, i) ==
  Location(nodes[i], StartOffset(nodes, i),
           EndOffset(nodes, i, LastDescendant(nodes, i)))

\* parseFragment: the tree with its locations
parseFragment(nodes) ==
  [nodes |-> nodes,
   loc |-> [i \in 1..Len(nodes) |-> sourceCodeLocation(nodes, i)],
   childNodes |-> Children(nodes, 0)]

\* an ast variable not assigned yet
NoAst == [nodes |-> <<>>, loc |-> <<>>, childNodes |-> <<>>]

(***************************************************************************)
(* result.strings, as far as the renderer reads it: for each static string *)
(* what lastAttributeNameRegex.exec finds at its end.  The string before   *)
(* the first expression of an attribute value ends with that attribute's   *)
(* name; the string before a node expression or before a later expression  *)
(* of the same attribute value does not match.                             *)
(***************************************************************************)
NoMatch == [match |-> FALSE, sigil |-> "", base |-> ""]
Match(sigil, base) == [match |-> TRUE, sigil |-> sigil, base |-> base]

MarkerCount(tokens) == Cardinality({k \in 1..Len(tokens) : tokens[k] = marker})

AttrSlots(a) ==
  IF ~a.bound \/ MarkerCount(a.value) = 0 THEN <<>>
  ELSE <<Match(a.sigil, a.base)>> \o [k \in 1..(MarkerCount(a.value) - 1) |-> NoMatch]

NodeSlots(n) ==
  CASE isCommentNode(n) ->
         IF MarkerCount(n.data) = 0 THEN <<>>
         ELSE IF n.slot = "attr" THEN <<Match("", "x")>> ELSE <<NoMatch>>
    [] isElement(n) -> Flatten([k \in 1..Len(n.attrs) |-> AttrSlots(n.attrs[k])])
    [] OTHER -> <<>>

\* one entry per expression, in document order, and one for the last string
Strings(nodes) == Flatten([i \in 1..Len(nodes) |-> NodeSlots(nodes[i])]) \o <<NoMatch>>

\* lastAttributeNameRegex.exec(strings[partIndex]); a partIndex past the last
\* string reads undefined, which matches nothing
lastAttributeNameRegexExec(strings, partIndex) ==
  IF partIndex + 1 \in 1..Len(strings) THEN strings[partIndex + 1] ELSE NoMatch

(***************************************************************************)
(* getTemplate: the Part Extractor.                                        *)
(***************************************************************************)
\* attr.value.split(markerRegex)
RECURSIVE SplitAcc(_, _, _)
SplitAcc(value, acc, cur) ==
  IF Len(value) = 0 THEN Append(acc, cur)
  ELSE IF Head(value) = marker THEN SplitAcc(Tail(value), Append(acc, cur), <<>>)
  ELSE SplitAcc(Tail(value), acc, Append(cur, Head(value)))
split(value) == SplitAcc(value, <<>>, <<>>)

NodePart(index) ==
  [type |-> "node", index |-> index, sigil |-> "", base |-> "", strings |-> <<>>]
AttributePart(index, a) ==
  [type |-> "attribute", index |-> index, sigil |-> a.sigil, base |-> a.base,
   strings |-> split(a.value)]

\* attr.name.endsWith(boundAttributeSuffix)
isBound(a) == a.bound

\* the parts the bound attributes of an element add
RECURSIVE AttrParts(_, _, _)
AttrParts(attrs, k, nodeIndex) ==
  IF k > Len(attrs) THEN <<>>
  ELSE (IF isBound(attrs[k]) THEN <<AttributePart(nodeIndex, attrs[k])>> ELSE <<>>)
         \o AttrParts(attrs, k + 1, nodeIndex)

\* the parts a node adds
PartsOf(n, nodeIndex) ==
  IF isCommentNode(n)
  THEN IF n.data = <<marker>> THEN <<NodePart(nodeIndex)>> ELSE <<>>
  ELSE IF isElement(n) /\ Len(n.attrs) > 0 THEN AttrParts(n.attrs, 1, nodeIndex)
  ELSE <<>>

\* the steps of nodeIndex at a node: two at a comment, one at any other
IndexSteps(n) == IF isCommentNode(n) THEN 2 ELSE 1

\* the loop over depthFirst(ast): walk[k] is the node visited, nodeIndex the
\* running index, parts the parts pushed so far
RECURSIVE extractParts(_, _, _, _, _)
extractParts(nodes, walk, k, nodeIndex, parts) ==
  IF k > Len(walk) THEN parts
  ELSE extractParts(nodes, walk, k + 1,
                    nodeIndex + IndexSteps(Node(nodes, walk[k])),
                    parts \o PartsOf(Node(nodes, walk[k]), nodeIndex))

\* what getTemplate builds on a cache miss
parseTemplate(nodes) ==
  [html |-> getHTML(nodes), ast |-> parseFragment(nodes),
   parts |-> extractParts(nodes, depthFirst(nodes, 0), 1, -1, <<>>)]

(***************************************************************************)
(* The TemplateResults, arrays and directives the renders below are given, *)
(* the registered custom elements and the reflected attributes.            *)
(***************************************************************************)
\* a TemplateResult: strings names the template literal it was made by
Result(t, values) == [strings |-> t, values |-> values]

\* the result of a frame that renders no TemplateResult
NoResult == Result("", <<>>)

Results ==
  "hello" :> Result("hello", <<Prim("World")>>)
  @@ "boolT" :> Result("bool", <<Prim("v"), Prim("true")>>)
  @@ "boolF" :> Result("bool", <<Undefined, False>>)
  @@ "badbool" :> Result("badbool", <<Prim("x")>>)
  @@ "host" :> Result("host", <<Prim("1"), ClassMap("c1"), Prim("y"), RenderLight>>)
  @@ "fooShadow" :> Result("fooShadow", <<>>)
  @@ "fooLight" :> Result("fooLight", <<>>)
  @@ "barShadow" :> Result("barShadow", <<>>)
  @@ "barLight" :> Result("barLight", <<>>)
  @@ "nest" :> Result("nest", <<RenderLight>>)
  @@ "cmt" :> Result("cmt", <<Prim("k"), Null>>)
  @@ "embed" :> Result("embed", <<Prim("a"), Prim("z")>>)
  @@ "embed2" :> Result("embed2", <<Prim("a"), Prim("true")>>)
  @@ "embed3" :> Result("embed3", <<Prim("a"), False>>)
  @@ "list" :> Result("list", <<Arr("items")>>)
  @@ "li1" :> Result("li", <<Prim("one")>>)
  @@ "li2" :> Result("li", <<Nothing>>)
  @@ "bad" :> Result("bad", <<Prim("1"), Prim("handler")>>)
  @@ "unk" :> Result("unk", <<Prim("1"), Prim("handler")>>)

\* result.digest: a digest of result.strings
digest(result) == result.strings

Arrays == "items" :> <<TR("li1"), TR("li2")>>

\* the items a repeat directive renders
RepeatItems == "rep" :> <<TR("li1")>>

\* the values render() is called with
Roots ==
  { TR("hello"), TR("boolT"), TR("boolF"), TR("badbool"), TR("host"), TR("nest"),
    TR("cmt"), TR("embed"), TR("embed2"), TR("embed3"), TR("list"), TR("bad"),
    TR("unk"), Repeat("rep"), Null, RenderLight }

\* tagName.indexOf('-') !== -1
HasHyphen(tagName) == tagName \in {"x-foo", "x-bar", "x-bad", "x-unknown", "x-none"}

\* customElements.get(tagName) !== undefined
ctorDefined(tagName) == tagName \in {"x-foo", "x-bar", "x-bad"}
\* whether new ctor() throws
ctorThrows(tagName) == tagName = "x-bad"
\* instance.render() and instance.renderLight()
renderOf(tagName) == IF tagName = "x-foo" THEN TR("fooShadow") ELSE TR("barShadow")
renderLightOf(tagName) == IF tagName = "x-foo" THEN TR("fooLight") ELSE TR("barLight")

\* reflectedAttributeName(tagName, propertyName); <<>> is undefined
reflectedAttributeName(tagName, propertyName) ==
  IF propertyName = "bar" THEN <<"bar">> ELSE <<>>

(***************************************************************************)
(* State.                                                                  *)
(*   renders[r]     one top-level render(value) call and the               *)
(*                  IterableReader that pulls from it:                     *)
(*     stack        the generator frames, innermost last                   *)
(*     instances    renderInfo.instances                                   *)
(*     heap         the custom element instances constructed               *)
(*     out          the chunks pushed to the reader's consumer             *)
(*     status       "suspended" (created, or stopped at a yield),          *)
(*                  "running" (inside a next()), "done" or "error"         *)
(*     error        the error thrown, "" if none                           *)
(*     reads        the number of _read calls                              *)
(*     ended        the reader has pushed null                             *)
(*     errored      the reader has emitted 'error'                         *)
(*     logged       the number of console.error calls                      *)
(*   templateCache  the module's template cache                            *)
(*   parseCount     how many times each template literal was parsed        *)
(*   running        the render inside a next() call, 0 if none             *)
(*   prim           a flushTo / skipTo pair called on its own: the html,   *)
(*                  lastOffset, and the last call with its outcome         *)
(***************************************************************************)
VARIABLES renders, templateCache, parseCount, running, prim

vars == <<renders, templateCache, parseCount, running, prim>>

\* the number of top-level render calls in flight
MaxRenders == 2
Renders == 1..MaxRenders

\* an undefined offset
Undef == -1

\* a frame of renderValue(value, renderInfo)
RVFrame(value) ==
  [fn |-> "renderValue", pc |-> "start", value |-> value, i |-> 0,
   result |-> NoResult, html |-> <<>>, ast |-> NoAst, templateParts |-> <<>>,
   partIndex |-> 0, templatePartIndex |-> 0, lastOffset |-> 0,
   top |-> 0, walk |-> <<>>, j |-> 0, node |-> 0, instance |-> 0,
   writeTag |-> FALSE, boundAttrsCount |-> 0, attr |-> 0, name |-> NoMatch]

\* a frame of renderTemplateResult(result, renderInfo), with the locals of the
\* handleNode call in progress
RTRFrame(result) ==
  [fn |-> "renderTemplateResult", pc |-> "start", value |-> Undefined, i |-> 0,
   result |-> result, html |-> <<>>, ast |-> NoAst, templateParts |-> <<>>,
   partIndex |-> 0, templatePartIndex |-> 0, lastOffset |-> 0,
   top |-> 0, walk |-> <<>>, j |-> 0, node |-> 0, instance |-> 0,
   writeTag |-> FALSE, boundAttrsCount |-> 0, attr |-> 0, name |-> NoMatch]

\* render(value): a generator that has not run yet, with a fresh RenderInfo
render(value) ==
  [root |-> value, stack |-> <<RVFrame(value)>>, instances |-> <<>>, heap |-> <<>>,
   out |-> <<>>, status |-> "suspended", error |-> "", reads |-> 0,
   ended |-> FALSE, errored |-> FALSE, logged |-> 0]

Top(p) == p.stack[Len(p.stack)]
SetTop(p, f) == [p EXCEPT !.stack[Len(p.stack)] = f]
Push(p, f) == [p EXCEPT !.stack = Append(@, f)]
\* a generator returns: its caller goes on, or the render is done
Return(p) ==
  [p EXCEPT !.stack = SubSeq(@, 1, Len(@) - 1),
            !.status = IF Len(p.stack) = 1 THEN "done" ELSE @]
\* the chunk is pushed and the generator runs on without waiting for next()
YieldAndGoOn(p, chunk) == [p EXCEPT !.out = Append(@, chunk)]

\* yield chunk: next() returns it
Yield(p, chunk) == [p EXCEPT !.out = Append(@, chunk), !.status = "suspended"]
\* throw: the generators are closed; the frames stay as they were when the
\* error was raised
Throw(p, msg) == [p EXCEPT !.status = "error", !.error = msg]

Step(p, c) == [p |-> p, c |-> c]

(***************************************************************************)
(* flushTo and skipTo.                                                     *)
(***************************************************************************)
Min(a, b) == IF a < b THEN a ELSE b
Max(a, b) == IF a < b THEN b ELSE a
Clamp(html, x) == IF x = Undef THEN 0 ELSE Min(Max(x, 0), Len(html))

\* html.substring(from, to): an undefined `to` is the end, an undefined `from`
\* is 0, and the two are swapped when from > to
substring(html, from, to) ==
  SubSeq(html,
         Min(Clamp(html, from), IF to = Undef THEN Len(html) ELSE Clamp(html, to)) + 1,
         Max(Clamp(html, from), IF to = Undef THEN Len(html) ELSE Clamp(html, to)))

flushTo(html, lastOffset, offset) ==
  IF lastOffset = Undef
  THEN [error |-> "lastOffset is undefined", lastOffset |-> lastOffset, chunk |-> <<>>]
  ELSE [error |-> "", lastOffset |-> offset, chunk |-> substring(html, lastOffset, offset)]

skipTo(lastOffset, offset) ==
  IF lastOffset = Undef
  THEN [error |-> "lastOffset is undefined", lastOffset |-> lastOffset]
  ELSE IF offset < lastOffset
  THEN [error |-> "offset must be greater than lastOffset", lastOffset |-> lastOffset]
  ELSE [error |-> "", lastOffset |-> offset]

(***************************************************************************)
(* getTemplate(result), on the cache c.                                    *)
(***************************************************************************)
\* the key of templateCache.get and templateCache.set
keyByLength(result) == Len(result.values) + 1
cacheKey(result) == result.strings

\* templateCache.get(result.strings) !== undefined
cacheMiss(cache, key) == FALSE
cacheHit(cache, key) == key \in DOMAIN cache

\* the entry is stored without its parts
cacheSetStale(c, key, strings, t) ==
  [template |-> t,
   c |-> [templateCache |->
            [k \in DOMAIN c.templateCache \cup {key} |->
               IF k = key THEN [t EXCEPT !.parts = <<>>] ELSE c.templateCache[k]],
          parseCount |-> [c.parseCount EXCEPT ![strings] = @ + 1]]]

\* templateCache.set(result.strings, t); return t
cacheSet(c, key, strings, t) ==
  [template |-> t,
   c |-> [templateCache |->
            [k \in DOMAIN c.templateCache \cup {key} |->
               IF k = key THEN t ELSE c.templateCache[k]],
          parseCount |-> [c.parseCount EXCEPT ![strings] = @ + 1]]]

getTemplate(result, c) ==
  IF cacheHit(c.templateCache, cacheKey(result))
  THEN [template |-> c.templateCache[cacheKey(result)], c |-> c]
  ELSE cacheSet(c, cacheKey(result), result.strings, parseTemplate(Source[result.strings]))

(***************************************************************************)
(* renderValue(value, renderInfo), one operator per stretch of code        *)
(* between two yields or calls.  Each takes the render p and the cache c   *)
(* and gives the two after the stretch has run.                            *)
(***************************************************************************)
litPartOpen == <<"<!--lit-part-->">>
litPartOpenDigest(result) == <<"<!--lit-part ", digest(result), "-->">>
litPartClose == <<"<!--/lit-part-->">>

\* the opening comment
rvStart(p, c) ==
  IF Top(p).value.type = "TemplateResult"
  THEN Step(Yield(SetTop(p, [Top(p) EXCEPT !.pc = "template"]),
                  litPartOpenDigest(Results[Top(p).value.ref])), c)
  ELSE Step(Yield(SetTop(p, [Top(p) EXCEPT !.pc = "dispatch"]), litPartOpen), c)

\* yield* renderTemplateResult(value, renderInfo)
rvTemplate(p, c) ==
  Step(Push(SetTop(p, [Top(p) EXCEPT !.pc = "close"]),
            RTRFrame(Results[Top(p).value.ref])), c)

\* const instance = renderInfo.instances[renderInfo.instances.length - 1] and
\* the rendering of instance.instance.renderLight(); closing is p about to
\* yield the closing comment
rvRenderLight(p, closing) ==
  IF Len(p.instances) = 0
  THEN Throw(p, "TypeError: instance is undefined")
  ELSE IF p.instances[Len(p.instances)].instance # 0
  THEN Push(closing,
            RVFrame(renderLightOf(p.heap[p.instances[Len(p.instances)].instance].tagName)))
  ELSE closing

\* the branches for a value that is no TemplateResult
rvBranch(p, f, closing) ==
  CASE f.value.type \in {"undefined", "null"} -> closing
    [] f.value.type = "repeat" -> SetTop(p, [f EXCEPT !.pc = "repeat", !.i = 1])
    [] f.value.type = "renderLight" -> rvRenderLight(p, closing)
    [] f.value.type = "nothing" -> closing
    [] f.value.type = "array" -> SetTop(p, [f EXCEPT !.pc = "array", !.i = 1])
    [] OTHER -> Yield(closing, String(f.value))

rvDispatch(p, c) ==
  Step(rvBranch(p, Top(p), SetTop(p, [Top(p) EXCEPT !.pc = "close"])), c)

\* one turn of a loop that renders items[f.i], or its end
rvItem(p, f, items) ==
  IF f.i <= Len(items)
  THEN Push(SetTop(p, [f EXCEPT !.i = @ + 1]), RVFrame(items[f.i]))
  ELSE SetTop(p, [f EXCEPT !.pc = "close"])

\* for (const item of value) yield* renderValue(item, renderInfo)
rvArray(p, c) == Step(rvItem(p, Top(p), Arrays[Top(p).value.ref]), c)

\* yield* value(renderInfo) for a repeat directive: each item is rendered
rvRepeat(p, c) == Step(rvItem(p, Top(p), RepeatItems[Top(p).value.ref]), c)

\* the closing comment
rvCloseSilent(p, c) == Step(SetTop(p, [Top(p) EXCEPT !.pc = "return"]), c)
rvClose(p, c) == Step(Yield(SetTop(p, [Top(p) EXCEPT !.pc = "return"]), litPartClose), c)

\* the end of renderValue
rvReturn(p, c) == Step(Return(p), c)

(***************************************************************************)
(* renderTemplateResult(result, renderInfo).                               *)
(***************************************************************************)
\* renderInfo.instances.pop()
pop(instances) ==
  IF Len(instances) = 0 THEN instances ELSE SubSeq(instances, 1, Len(instances) - 1)
\* renderInfo.instances.push({tagName})
push(instances, tagName) == Append(instances, [tagName |-> tagName, instance |-> 0])

\* the nodes among `from`..k whose subtree ends with node k, innermost first
SubtreesEndingAt(nodes, k, from) ==
  Descending({a \in from..k : LastDescendant(nodes, a) = k})

PostVisits(ending) == [y \in 1..Len(ending) |-> [visit |-> "post", node |-> ending[y]]]

\* traverse(node, {pre, post}) visits the subtree of node i: pre(k) before
\* the subtree of each node k, post(a) after it.  The visits, in order:
TraverseVisits(nodes, i) ==
  Flatten([x \in 1..(LastDescendant(nodes, i) - i + 1) |->
             <<[visit |-> "pre", node |-> i + x - 1]>>
               \o PostVisits(SubtreesEndingAt(nodes, i + x - 1, i))])

\* pre pushes a frame for an element, post pops one
visit(instances, n, v) ==
  IF ~isElement(n) THEN instances
  ELSE IF v.visit = "pre" THEN push(instances, n.tagName)
  ELSE pop(instances)

RECURSIVE traverseFrom(_, _, _, _)
traverseFrom(instances, nodes, visits, k) ==
  IF k > Len(visits) THEN instances
  ELSE traverseFrom(visit(instances, nodes[visits[k].node], visits[k]),
                    nodes, visits, k + 1)
traverse(instances, nodes, i) == traverseFrom(instances, nodes, TraverseVisits(nodes, i), 1)

\* result.values[index], undefined past the end
valueAt(result, index) ==
  IF index + 1 \in 1..Len(result.values) THEN result.values[index + 1] ELSE Undefined

\* getAttrValue(attr, result, startIndex): the raw value with each marker
\* replaced by the next value, a classMap directive by what it renders
RECURSIVE getAttrValue(_, _, _)
getAttrValue(value, result, startIndex) ==
  IF Len(value) = 0 THEN <<>>
  ELSE IF Head(value) = marker
  THEN String(valueAt(result, startIndex))
         \o getAttrValue(Tail(value), result, startIndex + 1)
  ELSE <<Head(value)>> \o getAttrValue(Tail(value), result, startIndex)

\* the locals of renderTemplateResult once getTemplate has returned
started(f, template) ==
  [f EXCEPT !.pc = "topLevel",
            !.html = template.html,
            !.ast = template.ast,
            !.templateParts = template.parts,
            !.partIndex = 0,
            !.templatePartIndex = -1,
            !.lastOffset = 0,
            !.top = 0]

startedWith(p, got) == Step(SetTop(p, started(Top(p), got.template)), got.c)

\* const {html, ast, parts} = getTemplate(result) and the cursors
rtrStart(p, c) == startedWith(p, getTemplate(Top(p).result, c))

\* one top-level node: the push for an element, the traverse call, and the
\* start of depthFirst(node)
enter(p, f, nodes, node) ==
  [SetTop(p, [f EXCEPT !.pc = "walk", !.top = @ + 1,
                       !.walk = depthFirst(nodes, node), !.j = 0])
     EXCEPT !.instances =
       traverse(IF isElement(nodes[node]) THEN push(@, nodes[node].tagName) ELSE @,
                nodes, node)]

\* for (const node of ast.childNodes)
rtrTopLevel(p, c) ==
  IF Top(p).top + 1 > Len(Top(p).ast.childNodes)
  THEN Step(SetTop(p, [Top(p) EXCEPT !.pc = "finalFlush"]), c)
  ELSE Step(enter(p, Top(p), Top(p).ast.nodes, Top(p).ast.childNodes[Top(p).top + 1]), c)

\* the frame of a top-level element is left on the stack
leaveNoPop(p, f, n) == SetTop(p, [f EXCEPT !.pc = "topLevel"])

\* the end of the loop over depthFirst(node): the pop for an element
leave(p, f, n) ==
  [SetTop(p, [f EXCEPT !.pc = "topLevel"])
     EXCEPT !.instances = IF isElement(n) THEN pop(@) ELSE @]

\* for (const child of depthFirst(node)) yield* handleNode(child)
rtrWalk(p, c) ==
  IF Top(p).j + 1 > Len(Top(p).walk)
  THEN Step(leave(p, Top(p), Top(p).ast.nodes[Top(p).ast.childNodes[Top(p).top]]), c)
  ELSE Step(SetTop(p, [Top(p) EXCEPT !.pc = "handleNode", !.j = @ + 1,
                                     !.node = Top(p).walk[Top(p).j + 1]]), c)

(***************************************************************************)
(* handleNode(node).                                                       *)
(***************************************************************************)
\* (instance as any)[propertyName] = value
setProperty(props, propertyName, value) ==
  IF \E k \in 1..Len(props) : props[k].name = propertyName
  THEN [k \in 1..Len(props) |->
          IF props[k].name = propertyName THEN [name |-> propertyName, value |-> value]
          ELSE props[k]]
  ELSE Append(props, [name |-> propertyName, value |-> value])

\* an instance of the custom element at node `node` of template `strings`
Instance(tagName, strings, node) ==
  [tagName |-> tagName, site |-> <<strings, node>>, props |-> <<>>]

\* The custom element branch: p after new ctor() for the element f.node of
\* f's template and the assignment to the top frame of renderInfo.instances.
\* A throw, of the constructor or of the assignment, is caught.
constructUncaught(p, f) ==
  IF ctorThrows(f.ast.nodes[f.node].tagName)
  THEN Throw(p, "Exception in custom element constructor")
  ELSE [p EXCEPT !.heap = Append(@, Instance(f.ast.nodes[f.node].tagName,
                                             f.result.strings, f.node)),
                 !.instances =
                   IF Len(@) = 0 THEN @
                   ELSE [@ EXCEPT ![Len(@)].instance = Len(p.heap) + 1]]
construct(p, f) ==
  IF ctorThrows(f.ast.nodes[f.node].tagName) THEN [p EXCEPT !.logged = @ + 1]
  ELSE [p EXCEPT !.heap = Append(@, Instance(f.ast.nodes[f.node].tagName,
                                             f.result.strings, f.node)),
                 !.instances =
                   IF Len(@) = 0 THEN @
                   ELSE [@ EXCEPT ![Len(@)].instance = Len(p.heap) + 1]]

\* whether the element is a custom element with a registered constructor
isCustom(tagName) == HasHyphen(tagName) /\ ctorDefined(tagName)

\* a marker comment: yield flushTo(node.sourceCodeLocation.startOffset)
flushed(p, f, fl, pc) ==
  IF fl.error # "" THEN Throw(p, fl.error)
  ELSE Yield(SetTop(p, [f EXCEPT !.pc = pc, !.lastOffset = fl.lastOffset]), fl.chunk)

\* an element: q is p after the custom element branch; the instance is the
\* one it constructed, if any
element(p, q, f, n) ==
  SetTop(q, [f EXCEPT !.pc = "attrs",
                      !.instance = IF Len(q.heap) > Len(p.heap) THEN Len(q.heap) ELSE 0,
                      !.writeTag = isCustom(n.tagName),
                      !.boundAttrsCount = 0, !.attr = 0])

handleNode(p, f, n) ==
  IF isCommentNode(n)
  THEN IF n.data = <<marker>>
       THEN flushed(p, f, flushTo(f.html, f.lastOffset, f.ast.loc[f.node].startOffset),
                    "commentValue")
       ELSE SetTop(p, [f EXCEPT !.pc = "walk"])
  ELSE IF isElement(n)
  THEN element(p, IF isCustom(n.tagName) THEN construct(p, f) ELSE p, f, n)
  ELSE SetTop(p, [f EXCEPT !.pc = "walk"])

\* the start of handleNode: a marker comment's flush, or an element's
\* instantiation
rtrHandleNode(p, c) == Step(handleNode(p, Top(p), Top(p).ast.nodes[Top(p).node]), c)

\* templatePartIndex++
keepTemplatePartIndex(templatePartIndex) == templatePartIndex
nextTemplatePartIndex(templatePartIndex) == templatePartIndex + 1

\* a marker comment after its flush: skip it, take the next value, render it
commentValue(p, f, sk) ==
  IF sk.error # "" THEN Throw(p, sk.error)
  ELSE Push(SetTop(p, [f EXCEPT !.pc = "walk",
                                !.lastOffset = sk.lastOffset,
                                !.partIndex = @ + 1,
                                !.templatePartIndex = nextTemplatePartIndex(@)]),
            RVFrame(valueAt(f.result, f.partIndex)))

rtrCommentValue(p, c) ==
  Step(commentValue(p, Top(p),
                    skipTo(Top(p).lastOffset, Top(p).ast.loc[Top(p).node].endOffset)), c)

\* result.strings, as lastAttributeNameRegex sees its members
stringsOf(result) == Strings(Source[result.strings])

\* the attributes after the k-th that are bound
boundAfter(attrs, k) == {x \in (k + 1)..Len(attrs) : isBound(attrs[x])}

\* the next bound attribute k: its name by the static string before the next
\* value, and the yield of the text up to the attribute
boundAttr(p, f, k, name) ==
  IF ~name.match
  THEN Throw(p, "TypeError: lastAttributeNameRegex.exec(...) is null")
  ELSE Yield(SetTop(p, [f EXCEPT !.pc = "binding", !.attr = k, !.name = name]),
             substring(f.html, f.lastOffset, f.ast.loc[f.node].attrs[k].startOffset))

attrsFrom(p, f, bound) ==
  IF bound = {}
  THEN SetTop(p, [f EXCEPT !.pc = "startTag"])
  ELSE boundAttr(p, f, CHOOSE x \in bound : \A y \in bound : x <= y,
                 lastAttributeNameRegexExec(stringsOf(f.result), f.partIndex))

\* for (const attr of node.attrs): up to the yield before a bound attribute
rtrAttrs(p, c) ==
  Step(attrsFrom(p, Top(p), boundAfter(Top(p).ast.nodes[Top(p).node].attrs, Top(p).attr)),
       c)

\* attr.name without the bound suffix
attributeNameOf(a) == (IF a.sigil = "" THEN <<>> ELSE <<a.sigil>>) \o <<a.base>>
\* attributeName.substring(1)
substring1(tokens) ==
  IF Len(tokens) > 1 THEN Tail(tokens) ELSE <<"substring(1) of ">> \o tokens

\* statics.length !== 2 || statics[0] !== '' || statics[1] !== ''
notSingleExpression(statics) ==
  Len(statics) # 2 \/ statics[1] # <<>> \/ statics[2] # <<>>

\* the value a property binding sets
propertyValue(a, result, partIndex) ==
  IF Len(split(a.value)) = 2 THEN valueAt(result, partIndex)
  ELSE Str(getAttrValue(a.value, result, partIndex))

\* every binding is taken to hold one expression
consumedOne(statics) == 1

\* the number of values a binding with these statics takes
consumed(statics) == Len(statics) - 1

\* a property binding: the assignment and the reflected attribute
propertyBinding(p, f, g, tagName, value) ==
  IF reflectedAttributeName(tagName, f.name.base) # <<>>
  THEN Yield(SetTop(p, g),
             reflectedAttributeName(tagName, f.name.base)
               \o <<"=\"">> \o String(value) \o <<"\"">>)
  ELSE SetTop(p, g)

assigned(p, f, value) ==
  IF f.instance # 0
  THEN [p EXCEPT !.heap[f.instance].props = setProperty(@, f.name.base, value)]
  ELSE p

\* a boolean attribute binding
booleanBinding(p, f, a, statics, after) ==
  IF notSingleExpression(statics)
  THEN Throw(p, "Boolean attributes can only contain a single expression")
  ELSE IF valueAt(f.result, f.partIndex).truthy
  THEN Yield(SetTop(p, [after EXCEPT !.partIndex = @ + 1]), substring1(attributeNameOf(a)))
  ELSE SetTop(p, [after EXCEPT !.partIndex = @ + 1])

\* the four kinds of binding, chosen by the first character of name
binding(p, f, tagName, a, statics, after) ==
  CASE f.name.sigil = "." ->
         propertyBinding(assigned(p, f, propertyValue(a, f.result, f.partIndex)), f,
                         [after EXCEPT !.partIndex = @ + consumed(statics)],
                         tagName, propertyValue(a, f.result, f.partIndex))
    [] f.name.sigil = "@" ->
         SetTop(p, [after EXCEPT !.partIndex = @ + consumed(statics)])
    [] f.name.sigil = "?" -> booleanBinding(p, f, a, statics, after)
    [] OTHER ->
         Yield(SetTop(p, [after EXCEPT !.partIndex = @ + consumed(statics)]),
               attributeNameOf(a) \o <<"=\"">>
                 \o getAttrValue(a.value, f.result, f.partIndex) \o <<"\"">>)

rtrBinding(p, c) ==
  Step(binding(p, Top(p), Top(p).ast.nodes[Top(p).node].tagName,
               Top(p).ast.nodes[Top(p).node].attrs[Top(p).attr],
               split(Top(p).ast.nodes[Top(p).node].attrs[Top(p).attr].value),
               [Top(p) EXCEPT !.pc = "attrEnd"]), c)

\* skipTo(attrEndOffset); boundAttrsCount += 1; templatePartIndex++
attrEnd(p, f, sk) ==
  IF sk.error # "" THEN Throw(p, sk.error)
  ELSE SetTop(p, [f EXCEPT !.pc = "attrs", !.lastOffset = sk.lastOffset,
                           !.boundAttrsCount = @ + 1,
                           !.templatePartIndex = @ + 1])

rtrAttrEnd(p, c) ==
  Step(attrEnd(p, Top(p),
               skipTo(Top(p).lastOffset,
                      Top(p).ast.loc[Top(p).node].attrs[Top(p).attr].endOffset)), c)

\* the start tag is flushed only for bound attributes
startTagBoundOnly(p, f) ==
  IF f.boundAttrsCount > 0
  THEN flushed(p, f, flushTo(f.html, f.lastOffset, f.ast.loc[f.node].startTagEnd),
               "bindings")
  ELSE SetTop(p, [f EXCEPT !.pc = "bindings"])

\* if (writeTag || boundAttrsCount > 0) yield flushTo(startTag.endOffset)
startTag(p, f) ==
  IF f.writeTag \/ f.boundAttrsCount > 0
  THEN flushed(p, f, flushTo(f.html, f.lastOffset, f.ast.loc[f.node].startTagEnd),
               "bindings")
  ELSE SetTop(p, [f EXCEPT !.pc = "bindings"])

rtrStartTag(p, c) == Step(startTag(p, Top(p)), c)

litBindings(index) == <<"<!--lit-bindings ", ToString(index), "-->">>

\* the comment is forgotten
bindingsNever(p, f) == SetTop(p, [f EXCEPT !.pc = "expand"])

\* if (boundAttrsCount > 0) yield `<!--lit-bindings ${templatePart.index}-->`
bindings(p, f) ==
  IF f.boundAttrsCount > 0
  THEN IF f.templatePartIndex + 1 \in 1..Len(f.templateParts)
       THEN Yield(SetTop(p, [f EXCEPT !.pc = "expand"]),
                  litBindings(f.templateParts[f.templatePartIndex + 1].index))
       ELSE Throw(p, "TypeError: templatePart is undefined")
  ELSE SetTop(p, [f EXCEPT !.pc = "expand"])

rtrBindings(p, c) == Step(bindings(p, Top(p)), c)

\* LitElementRenderer.renderElement(instance, renderInfo): the rendering of
\* the instance's render() result
renderElement(instance) == RVFrame(renderOf(instance.tagName))

\* if (instance !== undefined) yield* renderer.renderElement(instance, renderInfo)
expand(p, f) ==
  IF f.instance # 0
  THEN Push(SetTop(p, [f EXCEPT !.pc = "walk"]), renderElement(p.heap[f.instance]))
  ELSE SetTop(p, [f EXCEPT !.pc = "walk"])

rtrExpand(p, c) == Step(expand(p, Top(p)), c)

\* yield flushTo()
rtrFinalFlush(p, c) ==
  Step(flushed(p, Top(p), flushTo(Top(p).html, Top(p).lastOffset, Undef), "finalCheck"), c)

\* partIndex !== result.values.length
neverMismatch(partIndex, result) == FALSE
partIndexMismatch(partIndex, result) == partIndex # Len(result.values)

\* the check that every value was used, and the return
rtrFinalCheck(p, c) ==
  IF partIndexMismatch(Top(p).partIndex, Top(p).result)
  THEN Step(Throw(p, "unexpected final partIndex"), c)
  ELSE Step(Return(p), c)

(***************************************************************************)
(* The step a running render takes next, by the position of its innermost  *)
(* generator.                                                              *)
(***************************************************************************)
next(p, c) ==
  CASE Top(p).fn = "renderValue" /\ Top(p).pc = "start" -> rvStart(p, c)
    [] Top(p).fn = "renderValue" /\ Top(p).pc = "template" -> rvTemplate(p, c)
    [] Top(p).fn = "renderValue" /\ Top(p).pc = "dispatch" -> rvDispatch(p, c)
    [] Top(p).fn = "renderValue" /\ Top(p).pc = "array" -> rvArray(p, c)
    [] Top(p).fn = "renderValue" /\ Top(p).pc = "repeat" -> rvRepeat(p, c)
    [] Top(p).fn = "renderValue" /\ Top(p).pc = "close" -> rvClose(p, c)
    [] Top(p).fn = "renderValue" /\ Top(p).pc = "return" -> rvReturn(p, c)
    [] Top(p).fn = "renderTemplateResult" /\ Top(p).pc = "start" -> rtrStart(p, c)
    [] Top(p).fn = "renderTemplateResult" /\ Top(p).pc = "topLevel" -> rtrTopLevel(p, c)
    [] Top(p).fn = "renderTemplateResult" /\ Top(p).pc = "walk" -> rtrWalk(p, c)
    [] Top(p).fn = "renderTemplateResult" /\ Top(p).pc = "handleNode" ->
         rtrHandleNode(p, c)
    [] Top(p).fn = "renderTemplateResult" /\ Top(p).pc = "commentValue" ->
         rtrCommentValue(p, c)
    [] Top(p).fn = "renderTemplateResult" /\ Top(p).pc = "attrs" -> rtrAttrs(p, c)
    [] Top(p).fn = "renderTemplateResult" /\ Top(p).pc = "binding" -> rtrBinding(p, c)
    [] Top(p).fn = "renderTemplateResult" /\ Top(p).pc = "attrEnd" -> rtrAttrEnd(p, c)
    [] Top(p).fn = "renderTemplateResult" /\ Top(p).pc = "startTag" -> rtrStartTag(p, c)
    [] Top(p).fn = "renderTemplateResult" /\ Top(p).pc = "bindings" -> rtrBindings(p, c)
    [] Top(p).fn = "renderTemplateResult" /\ Top(p).pc = "expand" -> rtrExpand(p, c)
    [] Top(p).fn = "renderTemplateResult" /\ Top(p).pc = "finalFlush" ->
         rtrFinalFlush(p, c)
    [] Top(p).fn = "renderTemplateResult" /\ Top(p).pc = "finalCheck" ->
         rtrFinalCheck(p, c)

\* an empty template cache
NoCache == [templateCache |-> <<>>, parseCount |-> [t \in TemplateIds |-> 0]]

\* a render pulled until it is done or has thrown, with no other render in
\* between
RECURSIVE DrainFrom(_)
DrainFrom(s) ==
  IF s.p.status \in {"done", "error"} THEN s.p
  ELSE DrainFrom(next(s.p, s.c))
Drain(value) == DrainFrom(Step(render(value), NoCache))

(***************************************************************************)
(* IterableReader and the actions.                                         *)
(***************************************************************************)
\* the throw of next() is not turned into an 'error' event
pushOnly(p) == [p EXCEPT !.ended = @ \/ p.status = "done"]

\* what _read does with the outcome of this._iterator.next(): a chunk was
\* pushed by Yield; done pushes null; a throw is emitted as 'error'
pushOrEmit(p) ==
  [p EXCEPT !.ended = @ \/ p.status = "done",
            !.errored = @ \/ p.status = "error"]

Cache == [templateCache |-> templateCache, parseCount |-> parseCount]

\* the html and the offsets flushTo and skipTo are called with on their own
PrimLen == 6
PrimHtml == [k \in 1..PrimLen |-> ToString(k)]
PrimOffsets == 0..PrimLen
NoCall == [html |-> PrimHtml, lastOffset |-> 0, op |-> "", before |-> 0, offset |-> 0,
           error |-> "", chunk |-> <<>>]

At(r, fn, pc) ==
  /\ running = r
  /\ renders[r].status = "running"
  /\ Top(renders[r]).fn = fn
  /\ Top(renders[r]).pc = pc

Commit(r, res) ==
  /\ renders' = [renders EXCEPT ![r] = pushOrEmit(res.p)]
  /\ templateCache' = res.c.templateCache
  /\ parseCount' = res.c.parseCount
  /\ running' = IF res.p.status = "running" THEN r ELSE 0
  /\ UNCHANGED prim

Init ==
  /\ renders \in [Renders -> {render(v) : v \in Roots}]
  /\ templateCache = <<>>
  /\ parseCount = [t \in TemplateIds |-> 0]
  /\ running = 0
  /\ prim = NoCall

\* _read on a generator that can go on: next() resumes it
Read(r) ==
  /\ running = 0
  /\ renders[r].status = "suspended"
  /\ renders' = [renders EXCEPT ![r].status = "running", ![r].reads = @ + 1]
  /\ running' = r
  /\ UNCHANGED <<templateCache, parseCount, prim>>

\* _read on a generator closed by a throw: next() is done, null is pushed
ReadClosed(r) ==
  /\ running = 0
  /\ renders[r].status = "error"
  /\ ~renders[r].ended
  /\ renders' = [renders EXCEPT ![r].ended = TRUE, ![r].reads = @ + 1]
  /\ UNCHANGED <<templateCache, parseCount, running, prim>>

RvStart(r) == At(r, "renderValue", "start") /\ Commit(r, rvStart(renders[r], Cache))
RvTemplate(r) == At(r, "renderValue", "template") /\ Commit(r, rvTemplate(renders[r], Cache))
RvDispatch(r) == At(r, "renderValue", "dispatch") /\ Commit(r, rvDispatch(renders[r], Cache))
RvArray(r) == At(r, "renderValue", "array") /\ Commit(r, rvArray(renders[r], Cache))
RvRepeat(r) == At(r, "renderValue", "repeat") /\ Commit(r, rvRepeat(renders[r], Cache))
RvClose(r) == At(r, "renderValue", "close") /\ Commit(r, rvClose(renders[r], Cache))
RvReturn(r) == At(r, "renderValue", "return") /\ Commit(r, rvReturn(renders[r], Cache))
RtrStart(r) ==
  At(r, "renderTemplateResult", "start") /\ Commit(r, rtrStart(renders[r], Cache))
RtrTopLevel(r) ==
  At(r, "renderTemplateResult", "topLevel") /\ Commit(r, rtrTopLevel(renders[r], Cache))
RtrWalk(r) ==
  At(r, "renderTemplateResult", "walk") /\ Commit(r, rtrWalk(renders[r], Cache))
RtrHandleNode(r) ==
  At(r, "renderTemplateResult", "handleNode") /\ Commit(r, rtrHandleNode(renders[r], Cache))
RtrCommentValue(r) ==
  At(r, "renderTemplateResult", "commentValue")
    /\ Commit(r, rtrCommentValue(renders[r], Cache))
RtrAttrs(r) ==
  At(r, "renderTemplateResult", "attrs") /\ Commit(r, rtrAttrs(renders[r], Cache))
RtrBinding(r) ==
  At(r, "renderTemplateResult", "binding") /\ Commit(r, rtrBinding(renders[r], Cache))
RtrAttrEnd(r) ==
  At(r, "renderTemplateResult", "attrEnd") /\ Commit(r, rtrAttrEnd(renders[r], Cache))
RtrStartTag(r) ==
  At(r, "renderTemplateResult", "startTag") /\ Commit(r, rtrStartTag(renders[r], Cache))
RtrBindings(r) ==
  At(r, "renderTemplateResult", "bindings") /\ Commit(r, rtrBindings(renders[r], Cache))
RtrExpand(r) ==
  At(r, "renderTemplateResult", "expand") /\ Commit(r, rtrExpand(renders[r], Cache))
RtrFinalFlush(r) ==
  At(r, "renderTemplateResult", "finalFlush") /\ Commit(r, rtrFinalFlush(renders[r], Cache))
RtrFinalCheck(r) ==
  At(r, "renderTemplateResult", "finalCheck") /\ Commit(r, rtrFinalCheck(renders[r], Cache))

Next ==
  \E r \in Renders :
    \/ Read(r)
    \/ ReadClosed(r)
    \/ RvStart(r)
    \/ RvTemplate(r)
    \/ RvDispatch(r)
    \/ RvArray(r)
    \/ RvRepeat(r)
    \/ RvClose(r)
    \/ RvReturn(r)
    \/ RtrStart(r)
    \/ RtrTopLevel(r)
    \/ RtrWalk(r)
    \/ RtrHandleNode(r)
    \/ RtrCommentValue(r)
    \/ RtrAttrs(r)
    \/ RtrBinding(r)
    \/ RtrAttrEnd(r)
    \/ RtrStartTag(r)
    \/ RtrBindings(r)
    \/ RtrExpand(r)
    \/ RtrFinalFlush(r)
    \/ RtrFinalCheck(r)

Spec == Init /\ [][Next]_vars

(***************************************************************************)
(* flushTo and skipTo called on their own, with any offset, on the html    *)
(* and the lastOffset of one renderTemplateResult call.                    *)
(***************************************************************************)
InitPrimitives ==
  /\ renders = [r \in Renders |-> render(Null)]
  /\ templateCache = <<>>
  /\ parseCount = [t \in TemplateIds |-> 0]
  /\ running = 0
  /\ prim = NoCall

\* the call's outcome: a throw leaves lastOffset as it was
called(op, before, offset, res, chunk) ==
  [html |-> prim.html, lastOffset |-> res.lastOffset, op |-> op, before |-> before,
   offset |-> offset, error |-> res.error, chunk |-> chunk]

FlushTo(offset) ==
  /\ prim' = called("flushTo", prim.lastOffset, offset,
                    flushTo(prim.html, prim.lastOffset, offset),
                    flushTo(prim.html, prim.lastOffset, offset).chunk)
  /\ UNCHANGED <<renders, templateCache, parseCount, running>>

SkipTo(offset) ==
  /\ prim' = called("skipTo", prim.lastOffset, offset,
                    skipTo(prim.lastOffset, offset), <<>>)
  /\ UNCHANGED <<renders, templateCache, parseCount, running>>

NextPrimitives ==
  \/ \E offset \in PrimOffsets \cup {Undef} : FlushTo(offset)
  \/ \E offset \in PrimOffsets : SkipTo(offset)

SpecPrimitives == InitPrimitives /\ [][NextPrimitives]_vars

(***************************************************************************)
(* Properties.                                                             *)
(***************************************************************************)
Last(s) == s[Len(s)]

\* whether render r is inside renderTemplateResult at pc
InRtr(r, pc) ==
  /\ Len(renders[r].stack) > 0
  /\ Top(renders[r]).fn = "renderTemplateResult"
  /\ Top(renders[r]).pc = pc

\* C1: a renderTemplateResult call returns only from its final check, after
\* the tail flush, having consumed exactly result.values.length values; if
\* the value cursor differs from values.length at the final check, the
\* render raises the fatal error there: nothing more is emitted and the
\* reader emits 'error'.
C1_ValuesConsumedOrFatal ==
  [][\A r \in Renders :
       /\ (At(r, "renderTemplateResult", "finalCheck") /\ renders'[r] # renders[r]) =>
            /\ Top(renders[r]).lastOffset = Undef
            /\ renders'[r].out = renders[r].out
            /\ IF Top(renders[r]).partIndex = Len(Top(renders[r]).result.values)
               THEN /\ renders'[r].status # "error"
                    /\ renders'[r].stack =
                         SubSeq(renders[r].stack, 1, Len(renders[r].stack) - 1)
               ELSE /\ renders'[r].status = "error"
                    /\ renders'[r].error = "unexpected final partIndex"
                    /\ renders'[r].errored
       /\ (/\ Len(renders[r].stack) > 0
           /\ Top(renders[r]).fn = "renderTemplateResult"
           /\ Len(renders'[r].stack) < Len(renders[r].stack)) =>
            /\ Top(renders[r]).pc = "finalCheck"
            /\ Top(renders[r]).partIndex = Len(Top(renders[r]).result.values)
    ]_vars

\* a template with an expression left unconsumed has raised the fatal error
\* after its tail flush
C1_Witness ==
  \E r \in Renders :
    /\ renders[r].root = TR("embed")
    /\ renders[r].status = "error"
    /\ renders[r].error = "unexpected final partIndex"
    /\ InRtr(r, "finalCheck")
    /\ Top(renders[r]).partIndex = 1
    /\ Top(renders[r]).lastOffset = Undef
    /\ Len(renders[r].out) > 1

\* a chunk that opens a part, and the one that closes it
IsOpener(chunk) ==
  \/ chunk = litPartOpen
  \/ Len(chunk) = 3 /\ chunk[1] = "<!--lit-part " /\ chunk[3] = "-->"
IsCloser(chunk) == chunk = litPartClose
Openers(out, n) == Cardinality({k \in 1..n : IsOpener(out[k])})
Closers(out, n) == Cardinality({k \in 1..n : IsCloser(out[k])})

\* the renderValue calls of a render that have yielded their opening comment
\* and not yet their closing comment
OpenCalls(p) ==
  Cardinality({k \in 1..Len(p.stack) :
                 /\ p.stack[k].fn = "renderValue"
                 /\ p.stack[k].pc \notin {"start", "return"}})

\* C2: every renderValue call yields an opening lit-part comment first and
\* the closing comment last: at any moment the openers emitted and not yet
\* closed are exactly those of the calls in progress, no prefix of the
\* stream has more closers than openers, and a render that completes has as
\* many closers as openers, starting with an opener and ending with a closer.
C2_PartsBalanced ==
  \A r \in Renders :
    /\ \A n \in 0..Len(renders[r].out) :
         Closers(renders[r].out, n) <= Openers(renders[r].out, n)
    /\ Openers(renders[r].out, Len(renders[r].out))
         - Closers(renders[r].out, Len(renders[r].out)) = OpenCalls(renders[r])
    /\ renders[r].status = "done" =>
         /\ Openers(renders[r].out, Len(renders[r].out))
              = Closers(renders[r].out, Len(renders[r].out))
         /\ IsOpener(renders[r].out[1])
         /\ IsCloser(Last(renders[r].out))

\* a completed render of a template holding an array of two templates: six
\* calls, nested four deep
C2_Witness ==
  \E r \in Renders :
    /\ renders[r].root = TR("list")
    /\ renders[r].status = "done"
    /\ Openers(renders[r].out, Len(renders[r].out)) = 6
    /\ Closers(renders[r].out, Len(renders[r].out)) = 6

\* the index the Part Extractor's loop has when it visits node i: -1, one
\* step for the fragment and the steps of the nodes before i
indexAt(nodes, i) ==
  LET steps == [k \in 1..(i - 1) |-> IndexSteps(nodes[k])]
      sum[k \in 0..(i - 1)] == IF k = 0 THEN 0 ELSE sum[k - 1] + steps[k]
  IN -1 + IndexSteps(Fragment) + sum[i - 1]

\* whether a template part is the part of a bound attribute of element n
PartOf(part, n, index) ==
  /\ part.type = "attribute"
  /\ part.index = index
  /\ \E k \in 1..Len(n.attrs) :
       /\ isBound(n.attrs[k])
       /\ part.sigil = n.attrs[k].sigil
       /\ part.base = n.attrs[k].base
       /\ part.strings = split(n.attrs[k].value)

\* C3: when the lit-bindings comment of an element with bound attributes is
\* about to be emitted, templateParts[templatePartIndex] is an attribute part
\* of that element, and the comment emitted carries the index the Part
\* Extractor gave the element.
C3_BindingsIndexIsElementIndex ==
  \A r \in Renders :
    /\ (InRtr(r, "bindings") /\ Top(renders[r]).boundAttrsCount > 0) =>
         /\ renders[r].status # "error"
         /\ Top(renders[r]).templatePartIndex + 1 \in 1..Len(Top(renders[r]).templateParts)
         /\ PartOf(Top(renders[r]).templateParts[Top(renders[r]).templatePartIndex + 1],
                   Top(renders[r]).ast.nodes[Top(renders[r]).node],
                   indexAt(Top(renders[r]).ast.nodes, Top(renders[r]).node))
    /\ (InRtr(r, "expand") /\ Top(renders[r]).boundAttrsCount > 0) =>
         Last(renders[r].out) =
           litBindings(indexAt(Top(renders[r]).ast.nodes, Top(renders[r]).node))

\* the comment of an element that follows a marker comment, and that of an
\* element with a single- and a multi-expression attribute
C3_Witness ==
  \E r, q \in Renders :
    /\ renders[r].root = TR("boolT")
    /\ InRtr(r, "expand")
    /\ Top(renders[r]).boundAttrsCount = 1
    /\ Last(renders[r].out) = litBindings(3)
    /\ renders[q].root = TR("host")
    /\ InRtr(q, "expand")
    /\ Top(renders[q]).boundAttrsCount = 2
    /\ Top(renders[q]).templatePartIndex = 1
    /\ Last(renders[q].out) = litBindings(0)

\* the steps the index would take at a node if only a marker comment took
\* the additional one
MarkerOnlySteps(n) == IF isCommentNode(n) /\ n.data = <<marker>> THEN 2 ELSE 1

\* the index of node i with these steps
markerOnlyIndexAt(nodes, i) ==
  LET sum[k \in 0..(i - 1)] ==
        IF k = 0 THEN 0 ELSE sum[k - 1] + MarkerOnlySteps(nodes[k])
  IN -1 + 1 + sum[i - 1]

\* C4: the parts of every parsed template carry the indices of a counter that
\* starts with the first child of the root at 0, advances by one for every
\* visited node and by one more only after a comment whose text is the
\* marker.
C4_ExtraStepOnlyForMarker ==
  \A t \in DOMAIN templateCache :
    templateCache[t].parts =
      Flatten([i \in 1..Len(templateCache[t].ast.nodes) |->
                 PartsOf(templateCache[t].ast.nodes[i],
                         markerOnlyIndexAt(templateCache[t].ast.nodes, i))])

\* whether the top frame of render r is at pc with a boolean (?) attribute
\* whose value is not one whole expression
BadBooleanAt(r, pc) ==
  /\ InRtr(r, pc)
  /\ Top(renders[r]).ast.nodes[Top(renders[r]).node].attrs[Top(renders[r]).attr].sigil
       = "?"
  /\ notSingleExpression(
       split(Top(renders[r]).ast.nodes[Top(renders[r]).node]
               .attrs[Top(renders[r]).attr].value))

\* C5: a boolean attribute binding whose value is not exactly one whole
\* expression never gets past its binding step: the render is never at the
\* end of such an attribute, with its name emitted and a value consumed.
C5_BadBooleanNeverRenders ==
  \A r \in Renders : ~BadBooleanAt(r, "attrEnd")

\* the nearest ancestor of node i that is a registered custom element, 0 if
\* there is none
RECURSIVE NearestCustom(_, _)
NearestCustom(nodes, i) ==
  IF i = 0 THEN 0
  ELSE IF isElement(nodes[i]) /\ isCustom(nodes[i].tagName) THEN i
  ELSE NearestCustom(nodes, nodes[i].parent)

\* whether the top frame of renderInfo.instances is that of element e of the
\* template `strings`, with the instance constructed for it
TopIsElement(p, strings, nodes, e) ==
  /\ Len(p.instances) > 0
  /\ Last(p.instances).tagName = nodes[e].tagName
  /\ Last(p.instances).instance # 0
  /\ p.heap[Last(p.instances).instance].site = <<strings, e>>

\* whether render r is about to render a renderLight() value of a marker
\* comment of a template
RenderLightInTemplate(r) ==
  /\ Len(renders[r].stack) >= 2
  /\ renders[r].status # "error"
  /\ Top(renders[r]).fn = "renderValue"
  /\ Top(renders[r]).pc = "dispatch"
  /\ Top(renders[r]).value.type = "renderLight"
  /\ renders[r].stack[Len(renders[r].stack) - 1].fn = "renderTemplateResult"

\* C6: when a renderLight() value is rendered inside a template, below a
\* custom element, the top frame of renderInfo.instances is the nearest
\* enclosing custom element of the value's node, with that element's own
\* instance.
C6_TopFrameIsEnclosingElement ==
  \A r \in Renders :
    RenderLightInTemplate(r) =>
      LET g == renders[r].stack[Len(renders[r].stack) - 1]
          e == NearestCustom(g.ast.nodes, g.ast.nodes[g.node].parent)
      IN e # 0 => TopIsElement(renders[r], g.result.strings, g.ast.nodes, e)

\* C7: each template literal is parsed at most once, and exactly once when
\* it is in the cache; a cache entry, once written, stays as it is; and a
\* renderTemplateResult call that finds its template in the cache takes that
\* very entry without parsing.
C7_ParsedOnce ==
  [][/\ \A t \in DOMAIN templateCache :
          t \in DOMAIN templateCache' /\ templateCache'[t] = templateCache[t]
     /\ \A t \in TemplateIds :
          /\ parseCount'[t] <= 1
          /\ parseCount'[t] = 1 <=> t \in DOMAIN templateCache'
     /\ \A r \in Renders :
          (/\ At(r, "renderTemplateResult", "start")
           /\ renders'[r] # renders[r]
           /\ Top(renders[r]).result.strings \in DOMAIN templateCache) =>
             /\ parseCount' = parseCount
             /\ templateCache' = templateCache
             /\ Top(renders'[r]).html = templateCache[Top(renders[r]).result.strings].html
             /\ Top(renders'[r]).ast = templateCache[Top(renders[r]).result.strings].ast
             /\ Top(renders'[r]).templateParts
                  = templateCache[Top(renders[r]).result.strings].parts
    ]_vars

\* two renders of the same template have both got it, one of them from the
\* cache, and it was parsed once
C7_Witness ==
  \E r, q \in Renders :
    /\ r # q
    /\ renders[r].root = Repeat("rep")
    /\ renders[q].root = TR("list")
    /\ renders[r].status = "done"
    /\ renders[q].status = "done"
    /\ parseCount["li"] = 1
    /\ parseCount["list"] = 1

\* each root value rendered alone, from an empty cache
SoloRun == [v \in Roots |-> Drain(v)]

\* C8: however the pulls of the renders interleave, the chunks a render has
\* produced are the first chunks of the same render drained alone, and once
\* it is done or has thrown it has produced the same chunks and ended the
\* same way.
C8_SameAsAlone ==
  \A r \in Renders :
    /\ IsPrefix(renders[r].out, SoloRun[renders[r].root].out)
    /\ renders[r].status \in {"done", "error"} =>
         /\ renders[r].out = SoloRun[renders[r].root].out
         /\ renders[r].status = SoloRun[renders[r].root].status
         /\ renders[r].error = SoloRun[renders[r].root].error

\* two renders of the same template, both part-way, one of them inside the
\* template of the custom element and ahead of the other
C8_Witness ==
  \E r, q \in Renders :
    /\ r # q
    /\ renders[r].root = TR("host")
    /\ renders[q].root = TR("host")
    /\ renders[r].status = "suspended"
    /\ Len(renders[r].stack) = 4
    /\ Len(renders[r].out) > Len(renders[q].out)
    /\ Len(renders[q].out) > 3

\* the chunks with the tag and the template of the unregistered element
\* replaced by those of the element whose constructor throws
Renamed(out) ==
  [k \in 1..Len(out) |->
     [x \in 1..Len(out[k]) |->
        CASE out[k][x] = "x-unknown" -> "x-bad"
          [] out[k][x] = "unk" -> "bad"
          [] OTHER -> out[k][x]]]

\* C9: the render of an element whose constructor throws never fails: the
\* throw is logged, no instance is created (so no property is assigned), no
\* render of the element is nested (the only calls are the root's), and the
\* completed render has emitted what the render of the same template with an
\* unregistered element emits.
C9_ConstructorThrowIsCaught ==
  \A r \in Renders :
    renders[r].root = TR("bad") =>
      /\ renders[r].status # "error"
      /\ renders[r].heap = <<>>
      /\ \A k \in 1..Len(renders[r].instances) : renders[r].instances[k].instance = 0
      /\ Len(renders[r].stack) <= 2
      /\ renders[r].status = "done" =>
           /\ renders[r].logged = 1
           /\ renders[r].out = Renamed(SoloRun[TR("unk")].out)

C9_Witness ==
  \E r \in Renders :
    /\ renders[r].root = TR("bad")
    /\ renders[r].status = "done"
    /\ renders[r].logged = 1
    /\ renders[r].ended
    /\ ~renders[r].errored

\* C10: a skipTo before lastOffset throws and leaves lastOffset as it was; a
\* flushTo or skipTo after lastOffset has become undefined throws; and a
\* flushTo before lastOffset throws and emits nothing.
C10_CorruptOffsetsRejected ==
  /\ (prim.op = "skipTo" /\ prim.before # Undef /\ prim.offset < prim.before) =>
       prim.error # "" /\ prim.lastOffset = prim.before
  /\ (prim.op # "" /\ prim.before = Undef) =>
       prim.error # "" /\ prim.lastOffset = Undef
  /\ (/\ prim.op = "flushTo"
      /\ prim.before # Undef
      /\ prim.offset # Undef
      /\ prim.offset < prim.before) =>
       prim.error # "" /\ prim.chunk = <<>>

\* a lit-bindings comment
IsBindings(chunk) ==
  Len(chunk) = 3 /\ chunk[1] = "<!--lit-bindings " /\ chunk[3] = "-->"
BindingsIn(out) == Cardinality({k \in 1..Len(out) : IsBindings(out[k])})

\* the last bound attribute of an element that has one
LastBound(attrs) ==
  CHOOSE x \in boundAfter(attrs, 0) : \A y \in boundAfter(attrs, 0) : y <= x

\* C11: a lit-bindings comment is emitted for an element exactly when the
\* element has a bound attribute: the step of handleNode after the start tag
\* emits one comment, with the element's index, if the element has a bound
\* attribute, and then the chunk before it is the flush of the rest of the
\* opening tag; it emits nothing if the element has none, registered custom
\* element or not; and no other step of a render emits such a comment.
C11_BindingsCommentIffBound ==
  [][\A r \in Renders :
       /\ (At(r, "renderTemplateResult", "bindings") /\ renders'[r] # renders[r]) =>
            /\ Top(renders[r]).walk[Top(renders[r]).j] = Top(renders[r]).node
            /\ IF boundAfter(Top(renders[r]).ast.nodes[Top(renders[r]).node].attrs, 0) # {}
               THEN /\ renders'[r].status = "suspended"
                    /\ renders'[r].out =
                         Append(renders[r].out,
                                litBindings(indexAt(Top(renders[r]).ast.nodes,
                                                    Top(renders[r]).node)))
                    /\ Top(renders[r]).lastOffset =
                         Top(renders[r]).ast.loc[Top(renders[r]).node].startTagEnd
                    /\ Last(renders[r].out) =
                         substring(Top(renders[r]).html,
                                   Top(renders[r]).ast.loc[Top(renders[r]).node].attrs[
                                     LastBound(Top(renders[r]).ast.nodes[
                                                 Top(renders[r]).node].attrs)].endOffset,
                                   Top(renders[r]).ast.loc[Top(renders[r]).node].startTagEnd)
               ELSE /\ renders'[r].out = renders[r].out
                    /\ renders'[r].status = "running"
            /\ Top(renders'[r]).pc = "expand"
       /\ BindingsIn(renders'[r].out) # BindingsIn(renders[r].out) =>
            /\ At(r, "renderTemplateResult", "bindings")
            /\ BindingsIn(renders'[r].out) = BindingsIn(renders[r].out) + 1
    ]_vars

\* an unregistered hyphenated element with bound attributes has got its
\* comment and the unregistered one inside it, without any, has got none; a
\* registered custom element without bound attributes has got none and is
\* being expanded
C11_Witness ==
  \E r, q \in Renders :
    /\ renders[r].root = TR("unk")
    /\ InRtr(r, "expand")
    /\ Top(renders[r]).ast.nodes[Top(renders[r]).node].tagName = "x-none"
    /\ BindingsIn(renders[r].out) = 1
    /\ Last(renders[r].out) = litBindings(0)
    /\ renders[q].root = TR("nest")
    /\ Len(renders[q].stack) > 2
    /\ renders[q].stack[2].pc = "walk"
    /\ renders[q].stack[2].ast.nodes[renders[q].stack[2].node].tagName = "x-foo"
    /\ renders[q].stack[2].instance # 0
    /\ renders[q].stack[3].value = renderOf("x-foo")
    /\ BindingsIn(renders[q].out) = 0

\* the items a reader has pushed: the chunks, and null at the end
Pushed(p) == Len(p.out) + (IF p.ended THEN 1 ELSE 0)

\* what holds of the renders between the steps
LazyState ==
  /\ \A r \in Renders :
       /\ renders[r].reads = 0 => renders[r] = render(renders[r].root)
       /\ Pushed(renders[r]) + (IF renders[r].errored THEN 1 ELSE 0)
            = renders[r].reads - (IF renders[r].status = "running" THEN 1 ELSE 0)
       /\ renders[r].ended =>
            /\ renders[r].status \in {"done", "error"}
            /\ renders[r].out = SoloRun[renders[r].root].out
  /\ (\A r \in Renders : renders[r].reads = 0) =>
       /\ templateCache = <<>>
       /\ \A t \in TemplateIds : parseCount[t] = 0

\* what a step may change
LazyStep ==
  /\ \A r \in Renders :
       /\ (renders[r].status = "suspended" /\ renders'[r] # renders[r]) =>
            renders'[r] = [renders[r] EXCEPT !.status = "running", !.reads = @ + 1]
       /\ (renders[r].status = "running" /\ renders'[r] # renders[r]) =>
            /\ running = r
            /\ renders'[r].reads = renders[r].reads
            /\ CASE renders'[r].status = "running" ->
                      /\ renders'[r].out = renders[r].out
                      /\ Pushed(renders'[r]) = Pushed(renders[r])
                 [] renders'[r].status = "suspended" ->
                      /\ Len(renders'[r].out) = Len(renders[r].out) + 1
                      /\ IsPrefix(renders[r].out, renders'[r].out)
                      /\ ~renders'[r].ended
                 [] renders'[r].status = "done" ->
                      /\ renders'[r].out = renders[r].out
                      /\ renders'[r].ended
                      /\ renders'[r].stack = <<>>
                 [] renders'[r].status = "error" ->
                      /\ renders'[r].out = renders[r].out
                      /\ ~renders'[r].ended
       /\ renders[r].status = "done" => renders'[r] = renders[r]
       /\ Len(renders'[r].heap) # Len(renders[r].heap) =>
            At(r, "renderTemplateResult", "handleNode")
  /\ (templateCache' # templateCache \/ parseCount' # parseCount) =>
       /\ running # 0
       /\ At(running, "renderTemplateResult", "start")

\* C12: creating a render computes nothing, and a render that is not inside a
\* _read does not change; each _read runs its generator up to the next yield,
\* return or throw and pushes one item (a chunk, or null when the generator
\* is done), so the items pushed are as many as the _read calls; instances
\* are constructed and templates parsed only inside a _read; and null is
\* pushed only when every chunk of the render has been pushed.
C12_NothingAheadOfThePulls == [](LazyState) /\ [][LazyStep]_vars

\* a render stopped part-way, inside the template of a custom element it has
\* constructed, with as many chunks as _read calls, next to a render that has
\* not been read from and whose template is not parsed
C12_Witness ==
  \E r, q \in Renders :
    /\ renders[r].root = TR("host")
    /\ renders[r].status = "suspended"
    /\ Len(renders[r].heap) = 1
    /\ Len(renders[r].stack) = 4
    /\ renders[r].reads = Len(renders[r].out)
    /\ renders[r].reads > 5
    /\ renders[q].root = TR("hello")
    /\ renders[q] = render(TR("hello"))
    /\ "hello" \notin DOMAIN templateCache
    /\ "fooLight" \notin DOMAIN templateCache

\* C13: when the generator of a render throws inside a _read, the reader
\* emits 'error' with what was thrown, the _read returns (the other renders
\* are as they were and can be read from), and the chunks pushed so far
\* stay; from then on the render pushes no chunk: a later _read finds the
\* generator closed and pushes null.  The reader emits 'error' only for a
\* throw.
C13_ErrorEndsTheStream ==
  [][\A r \in Renders :
       /\ (renders[r].status = "running" /\ renders'[r].status = "error") =>
            /\ renders'[r].errored
            /\ renders'[r].error # ""
            /\ renders'[r].out = renders[r].out
            /\ ~renders'[r].ended
            /\ running' = 0
            /\ \A q \in Renders \ {r} : renders'[q] = renders[q]
       /\ renders[r].status = "error" =>
            /\ renders[r].errored
            /\ renders'[r].errored
            /\ renders'[r].status = "error"
            /\ renders'[r].error = renders[r].error
            /\ renders'[r].out = renders[r].out
            /\ renders'[r].stack = renders[r].stack
            /\ renders'[r] # renders[r] =>
                 /\ ~renders[r].ended
                 /\ renders'[r].ended
                 /\ renders'[r].reads = renders[r].reads + 1
       /\ (renders'[r].errored /\ ~renders[r].errored) =>
            renders[r].status = "running" /\ renders'[r].status = "error"
    ]_vars

\* a render that threw after five chunks and was read from once more, and a
\* render that threw in its second _read, its first chunk delivered
C13_Witness ==
  \E r, q \in Renders :
    /\ renders[r].root = TR("embed")
    /\ renders[r].status = "error"
    /\ renders[r].errored
    /\ renders[r].ended
    /\ Len(renders[r].out) >= 5
    /\ renders[r].reads = Len(renders[r].out) + 2
    /\ renders[q].root = RenderLight
    /\ renders[q].status = "error"
    /\ renders[q].error = "TypeError: instance is undefined"
    /\ renders[q].out = <<litPartOpen>>
    /\ ~renders[q].ended

\* whether the top frame of render r has just done the binding of a boolean
\* (?) attribute whose value is one whole expression
BooleanBound(r) ==
  /\ InRtr(r, "attrEnd")
  /\ Top(renders[r]).ast.nodes[Top(renders[r]).node].attrs[Top(renders[r]).attr].sigil
       = "?"
  /\ ~notSingleExpression(
        split(Top(renders[r]).ast.nodes[Top(renders[r]).node]
                .attrs[Top(renders[r]).attr].value))

\* C14: when the binding of a well-formed boolean attribute is done, the
\* last chunk is the bare attribute name if the value it consumed is truthy,
\* and the literal text before the attribute (nothing was emitted for the
\* attribute) if the value is falsy.
C14_BooleanNameIffTruthy ==
  \A r \in Renders :
    BooleanBound(r) =>
      Last(renders[r].out) =
        IF valueAt(Top(renders[r]).result, Top(renders[r]).partIndex - 1).truthy
        THEN <<Top(renders[r]).ast.nodes[Top(renders[r]).node]
                 .attrs[Top(renders[r]).attr].base>>
        ELSE substring(Top(renders[r]).html, Top(renders[r]).lastOffset,
                       Top(renders[r]).ast.loc[Top(renders[r]).node]
                         .attrs[Top(renders[r]).attr].startOffset)

\* each template literal parsed afresh
Parsed == [t \in TemplateIds |-> parseTemplate(Source[t])]

\* whether a render has ended, by its last chunk or by a throw
Finished(p) == p.status \in {"done", "error"}

\* C15: a template taken from the cache is structurally the template a fresh
\* parse gives: every cache entry, and the html, ast and parts of every
\* renderTemplateResult call, equal the fresh parse of the call's template
\* literal; and two renders of the same TemplateResult, whichever of them
\* populated the cache, produce the same chunks: at any moment the chunks of
\* one are the first chunks of the other, and when both have ended they have
\* produced the same sequence and ended the same way.
C15_SecondRenderSameChunks ==
  /\ \A t \in DOMAIN templateCache : templateCache[t] = Parsed[t]
  /\ \A r \in Renders :
       \A k \in 1..Len(renders[r].stack) :
         (/\ renders[r].stack[k].fn = "renderTemplateResult"
          /\ renders[r].stack[k].pc # "start") =>
            /\ renders[r].stack[k].html = Parsed[renders[r].stack[k].result.strings].html
            /\ renders[r].stack[k].ast = Parsed[renders[r].stack[k].result.strings].ast
            /\ renders[r].stack[k].templateParts
                 = Parsed[renders[r].stack[k].result.strings].parts
  /\ \A r, q \in Renders :
       renders[r].root = renders[q].root =>
         /\ \/ IsPrefix(renders[r].out, renders[q].out)
            \/ IsPrefix(renders[q].out, renders[r].out)
         /\ (Finished(renders[r]) /\ Finished(renders[q])) =>
              /\ renders[r].out = renders[q].out
              /\ renders[r].status = renders[q].status
              /\ renders[r].error = renders[q].error

\* two renders of the same TemplateResult have both ended, the three
\* templates they use parsed once: one of the two took each from the cache
C15_Witness ==
  \E r, q \in Renders :
    /\ r # q
    /\ renders[r].root = TR("host")
    /\ renders[q].root = TR("host")
    /\ renders[r].status = "done"
    /\ renders[q].status = "done"
    /\ renders[r].out = renders[q].out
    /\ Len(renders[r].out) > 10
    /\ parseCount["host"] = 1
    /\ parseCount["fooShadow"] = 1
    /\ parseCount["fooLight"] = 1

\* the expression slots of a node that the template encodes: one for a marker
\* comment, one for each marker in the value of each of the first k bound
\* attributes of an element
RECURSIVE BoundMarkers(_, _)
BoundMarkers(attrs, k) ==
  IF k = 0 THEN 0
  ELSE BoundMarkers(attrs, k - 1)
         + (IF isBound(attrs[k]) THEN MarkerCount(attrs[k].value) ELSE 0)

SlotsOf(n) ==
  IF isCommentNode(n) THEN (IF n.data = <<marker>> THEN 1 ELSE 0)
  ELSE IF isElement(n) THEN BoundMarkers(n.attrs, Len(n.attrs))
  ELSE 0

\* the slots of the first k nodes, in document order
RECURSIVE SlotsUpTo(_, _)
SlotsUpTo(nodes, k) == IF k = 0 THEN 0 ELSE SlotsUpTo(nodes, k - 1) + SlotsOf(nodes[k])

\* whether every boolean binding of the template is one whole expression
BooleansWellFormed(nodes) ==
  \A i \in 1..Len(nodes) :
    \A k \in 1..Len(nodes[i].attrs) :
      (isBound(nodes[i].attrs[k]) /\ nodes[i].attrs[k].sigil = "?") =>
        ~notSingleExpression(split(nodes[i].attrs[k].value))

\* a TemplateResult with as many values as its template has slots
WellShaped(result) ==
  /\ Len(result.values) = SlotsUpTo(Source[result.strings], Len(Source[result.strings]))
  /\ BooleansWellFormed(Source[result.strings])

\* C16: in a renderTemplateResult call of a TemplateResult with as many
\* values as its template has marker comments and markers in bound attribute
\* values, and with well-formed boolean bindings, the value cursor is, at
\* each marker comment and at each bound attribute, the number of slots
\* before it in document order; each binding advances it by the number of
\* markers in its value, each marker comment by one; so it is values.length
\* at the final check, and the final value-count error is not raised.
C16_OneValuePerSlot ==
  \A r \in Renders :
    (/\ Len(renders[r].stack) > 0
     /\ Top(renders[r]).fn = "renderTemplateResult"
     /\ WellShaped(Top(renders[r]).result)) =>
       /\ Top(renders[r]).pc = "commentValue" =>
            Top(renders[r]).partIndex
              = SlotsUpTo(Top(renders[r]).ast.nodes, Top(renders[r]).node - 1)
       /\ Top(renders[r]).pc = "binding" =>
            /\ Top(renders[r]).partIndex
                 = SlotsUpTo(Top(renders[r]).ast.nodes, Top(renders[r]).node - 1)
                     + BoundMarkers(Top(renders[r]).ast.nodes[Top(renders[r]).node].attrs,
                                    Top(renders[r]).attr - 1)
            /\ Top(renders[r]).name.sigil
                 = Top(renders[r]).ast.nodes[Top(renders[r]).node]
                     .attrs[Top(renders[r]).attr].sigil
       /\ Top(renders[r]).pc = "attrEnd" =>
            Top(renders[r]).partIndex
              = SlotsUpTo(Top(renders[r]).ast.nodes, Top(renders[r]).node - 1)
                  + BoundMarkers(Top(renders[r]).ast.nodes[Top(renders[r]).node].attrs,
                                 Top(renders[r]).attr)
       /\ Top(renders[r]).pc = "walk" =>
            Top(renders[r]).partIndex
              = SlotsUpTo(Top(renders[r]).ast.nodes, Top(renders[r]).node)
       /\ Top(renders[r]).pc = "finalCheck" =>
            /\ Top(renders[r]).partIndex = Len(Top(renders[r]).result.values)
            /\ renders[r].error # "unexpected final partIndex"

\* the render of a template with a property binding, a two-expression
\* attribute binding and a marker comment is at its final check, its four
\* values consumed
C16_Witness ==
  \E r \in Renders :
    /\ renders[r].root = TR("host")
    /\ Len(renders[r].stack) = 2
    /\ InRtr(r, "finalCheck")
    /\ WellShaped(Top(renders[r]).result)
    /\ Top(renders[r]).partIndex = 4
    /\ Len(Top(renders[r]).result.values) = 4
    /\ Len(renders[r].heap[1].props) = 1

\* whether the k-th generator of p is a renderTemplateResult that is
\* streaming the rendering of the instance it constructed for the element it
\* is at: the only calls made at an element are those of its instance
Expanding(p, k) ==
  /\ k < Len(p.stack)
  /\ p.stack[k].fn = "renderTemplateResult"
  /\ p.stack[k].pc = "walk"
  /\ p.stack[k].node # 0
  /\ isElement(p.stack[k].ast.nodes[p.stack[k].node])

EndsWith(chunk, tokens) ==
  /\ Len(tokens) <= Len(chunk)
  /\ SubSeq(chunk, Len(chunk) - Len(tokens) + 1, Len(chunk)) = tokens

\* C17: while the rendering of the instance constructed for a custom element
\* is streamed, the enclosing template has emitted its text up to the end of
\* the element's opening tag and no further, and has handled no descendant
\* of the element: nothing of the element's content or closing tag has been
\* emitted; and when that rendering starts, the last chunk is the element's
\* lit-bindings comment, after the flush of the rest of the opening tag, if
\* the element has bound attributes, and the flush ending with the opening
\* tag if it has none.
C17_ExpansionAfterOpeningTag ==
  \A r \in Renders :
    \A k \in 1..Len(renders[r].stack) :
      Expanding(renders[r], k) =>
        /\ renders[r].stack[k].instance # 0
        /\ renders[r].stack[k + 1].fn = "renderValue"
        /\ renders[r].stack[k + 1].value
             = renderOf(renders[r].stack[k].ast.nodes[renders[r].stack[k].node].tagName)
        /\ renders[r].stack[k].lastOffset
             = renders[r].stack[k].ast.loc[renders[r].stack[k].node].startTagEnd
        /\ renders[r].stack[k].walk[renders[r].stack[k].j] = renders[r].stack[k].node
        /\ (k + 1 = Len(renders[r].stack) /\ renders[r].stack[k + 1].pc = "start") =>
             IF boundAfter(renders[r].stack[k].ast.nodes[renders[r].stack[k].node].attrs, 0)
                  # {}
             THEN /\ Last(renders[r].out)
                       = litBindings(indexAt(renders[r].stack[k].ast.nodes,
                                             renders[r].stack[k].node))
                  /\ EndsWith(renders[r].out[Len(renders[r].out) - 1], <<">">>)
             ELSE EndsWith(Last(renders[r].out),
                           OpenTag(renders[r].stack[k].ast.nodes[renders[r].stack[k].node]))

\* the rendering of an instance is about to start after the lit-bindings
\* comment of its element, and that of an element without bound attributes,
\* nested in another element, is under way
C17_Witness ==
  \E r, q \in Renders :
    /\ renders[r].root = TR("host")
    /\ Len(renders[r].stack) = 3
    /\ Expanding(renders[r], 2)
    /\ renders[r].stack[3].pc = "start"
    /\ Last(renders[r].out) = litBindings(0)
    /\ renders[q].root = TR("nest")
    /\ Len(renders[q].stack) = 4
    /\ Expanding(renders[q], 2)
    /\ renders[q].stack[2].ast.nodes[renders[q].stack[2].node].tagName = "x-bar"
    /\ renders[q].stack[3].value = TR("barShadow")
    /\ renders[q].status = "suspended"

\* html.substring(a, b) for 0 <= a <= b <= html.length
Span(html, a, b) == SubSeq(html, a + 1, b)

\* no chunk of any render holds the marker or the bound attribute suffix
NoSentinelInOutput ==
  \A r \in Renders :
    \A k \in 1..Len(renders[r].out) :
      \A x \in 1..Len(renders[r].out[k]) :
        renders[r].out[k][x] \notin {marker, boundAttributeSuffix}

\* What a step of the renderTemplateResult call f (the innermost of render r,
\* g after the step) does with the flush offset and the html.  The offset
\* only grows, and is undefined only after the final flush; when it moves
\* from a to b, the span a..b is either the chunk emitted by the step (a
\* flush), or a marker comment (a skip), or a literal span emitted by the
\* step before, up to a bound attribute, and the raw text of that attribute
\* (a skip); the final flush emits the rest.  Only these steps emit text of
\* the html.
OffsetStep(r, f, g) ==
  /\ f.lastOffset # Undef =>
       /\ 0 <= f.lastOffset
       /\ f.lastOffset <= Len(f.html)
  /\ g.lastOffset # Undef =>
       /\ f.lastOffset # Undef
       /\ f.lastOffset <= g.lastOffset
  /\ (g.lastOffset = Undef /\ f.lastOffset # Undef) =>
       /\ f.pc = "finalFlush"
       /\ renders'[r].out
            = Append(renders[r].out, Span(f.html, f.lastOffset, Len(f.html)))
  /\ (g.lastOffset # Undef /\ g.lastOffset # f.lastOffset) =>
       CASE f.pc \in {"handleNode", "startTag"} ->
              renders'[r].out
                = Append(renders[r].out, Span(f.html, f.lastOffset, g.lastOffset))
         [] f.pc = "commentValue" ->
              /\ renders'[r].out = renders[r].out
              /\ Span(f.html, f.lastOffset, g.lastOffset) = <<"<!--", marker, "-->">>
         [] f.pc = "attrEnd" ->
              /\ renders'[r].out = renders[r].out
              /\ isBound(f.ast.nodes[f.node].attrs[f.attr])
              /\ f.lastOffset <= f.ast.loc[f.node].attrs[f.attr].startOffset
              /\ Span(f.html, f.ast.loc[f.node].attrs[f.attr].startOffset, g.lastOffset)
                   = AttrTokens(f.ast.nodes[f.node].attrs[f.attr])
         [] OTHER -> FALSE
  /\ (f.pc = "attrs" /\ renders'[r].out # renders[r].out) =>
       /\ g.pc = "binding"
       /\ g.lastOffset = f.lastOffset
       /\ f.lastOffset <= f.ast.loc[f.node].attrs[g.attr].startOffset
       /\ renders'[r].out
            = Append(renders[r].out,
                     Span(f.html, f.lastOffset, f.ast.loc[f.node].attrs[g.attr].startOffset))
  /\ f.pc = "binding" => g.lastOffset = f.lastOffset /\ g.attr = f.attr

\* C18: in every renderTemplateResult call the flush offset never decreases
\* before the final flush, the spans of the html emitted are disjoint and in
\* source order, what lies between them is skipped and is exactly the marker
\* comments and the raw text of the bound attributes, and so neither the
\* marker nor a bound attribute's suffix appears in any chunk.
C18_OffsetsPartitionTheHtml ==
  /\ [](NoSentinelInOutput)
  /\ [][\A r \in Renders :
          (/\ running = r
           /\ renders[r].status = "running"
           /\ Top(renders[r]).fn = "renderTemplateResult"
           /\ Top(renders[r]).pc # "start"
           /\ Len(renders'[r].stack) >= Len(renders[r].stack)) =>
             OffsetStep(r, Top(renders[r]), renders'[r].stack[Len(renders[r].stack)])
       ]_vars

\* whether a renderTemplateResult frame is between the push for a top-level
\* element (line 415) and the pop after its subtree (line 433)
InsideTopLevelElement(f) ==
  /\ f.fn = "renderTemplateResult"
  /\ f.pc \notin {"start", "topLevel", "finalFlush", "finalCheck"}
  /\ isElement(f.ast.nodes[f.ast.childNodes[f.top]])

\* the frames the calls in progress have pushed and not yet popped
OwedFrames(p) ==
  Cardinality({k \in 1..Len(p.stack) : InsideTopLevelElement(p.stack[k])})

\* whether one of the visits of traverse pops the stack while it is empty
PopsWhileEmpty(instances, nodes, visits) ==
  \E m \in 1..Len(visits) :
    /\ visits[m].visit = "post"
    /\ isElement(nodes[visits[m].node])
    /\ Len(traverseFrom(instances, nodes, SubSeq(visits, 1, m - 1), 1)) = 0

\* the stack as the traverse call for the next top-level node of f finds it
Entered(p, f) ==
  IF isElement(f.ast.nodes[f.ast.childNodes[f.top + 1]])
  THEN push(p.instances, f.ast.nodes[f.ast.childNodes[f.top + 1]].tagName)
  ELSE p.instances

\* C19: renderInfo.instances holds exactly one frame for each
\* renderTemplateResult call in progress that is inside the loop of a
\* top-level element: a call that has not entered such a loop, or has left
\* it, or has returned, has left the stack as long as it found it, and the
\* stack of a completed render is empty.  The traverse call at each top-level
\* node leaves the stack as it found it and never pops it while it is empty,
\* and the pop after a top-level element finds that element's frame.
C19_StackBalanced ==
  \A r \in Renders :
    /\ Len(renders[r].instances) = OwedFrames(renders[r])
    /\ renders[r].status = "done" => renders[r].instances = <<>>
    /\ (/\ InRtr(r, "topLevel")
        /\ Top(renders[r]).top + 1 <= Len(Top(renders[r]).ast.childNodes)) =>
         /\ traverse(Entered(renders[r], Top(renders[r])), Top(renders[r]).ast.nodes,
                     Top(renders[r]).ast.childNodes[Top(renders[r]).top + 1])
              = Entered(renders[r], Top(renders[r]))
         /\ ~PopsWhileEmpty(Entered(renders[r], Top(renders[r])),
                            Top(renders[r]).ast.nodes,
                            TraverseVisits(Top(renders[r]).ast.nodes,
                                           Top(renders[r]).ast.childNodes[
                                             Top(renders[r]).top + 1]))
    /\ (/\ InRtr(r, "walk")
        /\ Top(renders[r]).j = Len(Top(renders[r]).walk)
        /\ InsideTopLevelElement(Top(renders[r]))) =>
         /\ Len(renders[r].instances) > 0
         /\ Last(renders[r].instances).tagName
              = Top(renders[r]).ast.nodes[
                  Top(renders[r]).ast.childNodes[Top(renders[r]).top]].tagName

\* a render of nested elements has completed with an empty stack, and a
\* render inside the template of a custom element has two frames, one for
\* each template's top-level element
C19_Witness ==
  \E r, q \in Renders :
    /\ renders[r].root = TR("nest")
    /\ renders[r].status = "done"
    /\ renders[r].instances = <<>>
    /\ Len(renders[r].heap) = 2
    /\ renders[q].root = TR("host")
    /\ renders[q].status = "running"
    /\ Len(renders[q].stack) = 4
    /\ Len(renders[q].instances) = 2
    /\ renders[q].instances[1].tagName = "x-foo"
    /\ renders[q].instances[2].tagName = "i"

====
